---- MODULE Spec2Model ----
(***************************************************************************)
(* Model of the Dekereke pivot-table application (docs/app.js): the        *)
(* session state, the filter configuration and its evaluation, the field   *)
(* value cache, and the pivot aggregation with its drill-down lookup.      *)
(*                                                                         *)
(* A JavaScript string is a sequence of one-character strings, so that     *)
(* concatenation, lower-casing, substring tests and the regular-expression *)
(* engine are computed and not assumed.  A record is a function from the   *)
(* field names it has to their values; a field a record lacks is outside   *)
(* its DOMAIN (JavaScript: undefined).                                     *)
(***************************************************************************)
EXTENDS Integers, Sequences, FiniteSets, TLC

VARIABLES database, fields, records, currentView, pivotConfig, pivotData,
          currentFilter, filterGroups, nextFilterGroupId,
          nextFilterConditionId, filteredRecordsCache, fieldValuesCache,
          dom, loads, call,
          cacheStorage, workers, page, fetches, response

\* the service worker side: the caches of the origin, the service worker
\* versions, the page they serve, the fetch events in flight and the last
\* response handed to the page
workerVars == <<cacheStorage, workers, page, fetches, response>>

sessionVars == <<database, fields, records, currentView, pivotConfig,
                 pivotData, currentFilter, filterGroups, nextFilterGroupId,
                 nextFilterConditionId, filteredRecordsCache,
                 fieldValuesCache, dom, loads>>

vars == <<database, fields, records, currentView, pivotConfig, pivotData,
          currentFilter, filterGroups, nextFilterGroupId,
          nextFilterConditionId, filteredRecordsCache, fieldValuesCache,
          dom, loads, call, workerVars>>

(***************************************************************************)
(* Strings                                                                 *)
(***************************************************************************)
Null == "null"

EmptyStr == << >>

Range(s) == {s[i] : i \in 1..Len(s)}

StrsUpTo(chars, n) == UNION {[1..k -> chars] : k \in 0..n}

SeqsUpTo(S, n) == UNION {[1..k -> S] : k \in 0..n}

UpperChars ==
  <<"A","B","C","D","E","F","G","H","I","J","K","L","M",
    "N","O","P","Q","R","S","T","U","V","W","X","Y","Z">>

LowerChars ==
  <<"a","b","c","d","e","f","g","h","i","j","k","l","m",
    "n","o","p","q","r","s","t","u","v","w","x","y","z">>

ToLowerChar(c) ==
  IF \E i \in 1..Len(UpperChars) : UpperChars[i] = c
  THEN LowerChars[CHOOSE i \in 1..Len(UpperChars) : UpperChars[i] = c]
  ELSE c

\* String.prototype.toLowerCase
toLowerCase(s) == [i \in 1..Len(s) |-> ToLowerChar(s[i])]

\* String.prototype.includes
includes(s, t) ==
  \E i \in 0..(Len(s) - Len(t)) : SubSeq(s, i + 1, i + Len(t)) = t

\* String.prototype.startsWith
startsWith(s, t) == Len(t) <= Len(s) /\ SubSeq(s, 1, Len(t)) = t

\* String.prototype.endsWith
endsWith(s, t) ==
  Len(t) <= Len(s) /\ SubSeq(s, Len(s) - Len(t) + 1, Len(s)) = t

(***************************************************************************)
(* new RegExp(pattern, 'i') on the pattern language that the inputs of     *)
(* this model can spell: literal characters, '.', alternation '|', the     *)
(* anchors '^' and '$' (which evaluateCondition adds itself), and '(',     *)
(* which without a closing ')' is a SyntaxError ("Unterminated group").    *)
(***************************************************************************)
RegExpValid(pattern) == "(" \notin Range(pattern)

\* the alternatives of a disjunction: the maximal '|'-free pieces
Alternatives(pattern) ==
  {SubSeq(pattern, i + 1, j - 1) :
     <<i, j>> \in {ij \in (0..Len(pattern)) \X (1..(Len(pattern) + 1)) :
                     /\ ij[1] < ij[2]
                     /\ (ij[1] = 0 \/ pattern[ij[1]] = "|")
                     /\ (ij[2] = Len(pattern) + 1 \/ pattern[ij[2]] = "|")
                     /\ \A k \in (ij[1] + 1)..(ij[2] - 1) : pattern[k] # "|"}}

RECURSIVE MatchFrom(_, _, _, _)
\* the terms alt[k..] match s starting after the first pos characters
MatchFrom(alt, k, s, pos) ==
  IF k > Len(alt) THEN TRUE
  ELSE IF alt[k] = "^" THEN pos = 0 /\ MatchFrom(alt, k + 1, s, pos)
  ELSE IF alt[k] = "$" THEN pos = Len(s) /\ MatchFrom(alt, k + 1, s, pos)
  ELSE IF alt[k] = "." THEN pos < Len(s) /\ MatchFrom(alt, k + 1, s, pos + 1)
  ELSE /\ pos < Len(s)
       /\ ToLowerChar(s[pos + 1]) = ToLowerChar(alt[k])
       /\ MatchFrom(alt, k + 1, s, pos + 1)

\* RegExp.prototype.test: an unanchored search
RegExpTest(pattern, s) ==
  \E alt \in Alternatives(pattern) :
    \E pos \in 0..Len(s) : MatchFrom(alt, 1, s, pos)

(***************************************************************************)
(* Filter conditions                                                       *)
(***************************************************************************)
Operators ==
  {"equals", "not-equals", "contains", "not-contains", "starts-with",
   "ends-with", "in-list", "empty", "not-empty"}

\* String(record[condition.field] || ''); the first definition is
\* String(record[condition.field])
FieldValueAsText(record, field) ==
  IF field \in DOMAIN record THEN record[field]
  ELSE <<"u", "n", "d", "e", "f", "i", "n", "e", "d">>

FieldValue(record, field) ==
  IF field \in DOMAIN record /\ record[field] # EmptyStr
  THEN record[field] ELSE EmptyStr

\* InListResult comparing without lower-casing
InListResultCaseSensitive(fieldValue, condition) ==
  IF Len(condition.values) = 0 THEN TRUE
  ELSE \E i \in 1..Len(condition.values) : fieldValue = condition.values[i]

\* the in-list branch of evaluateCondition
InListResult(fieldValue, condition) ==
  IF Len(condition.values) = 0 THEN TRUE
  ELSE \E i \in 1..Len(condition.values) :
         toLowerCase(fieldValue) = toLowerCase(condition.values[i])

\* the switch of the regex branch, entered once new RegExp(testValue, 'i')
\* has succeeded
RegexSwitch(fieldValue, condition) ==
  LET testValue == condition.value
      op == condition.operator
  IN  IF op \in {"equals", "contains"}
        THEN [threw |-> FALSE, result |-> RegExpTest(testValue, fieldValue)]
      ELSE IF op \in {"not-equals", "not-contains"}
        THEN [threw |-> FALSE, result |-> ~RegExpTest(testValue, fieldValue)]
      ELSE IF op = "starts-with"
        THEN IF RegExpValid(<<"^">> \o testValue)
             THEN [threw |-> FALSE,
                   result |-> RegExpTest(<<"^">> \o testValue, fieldValue)]
             ELSE [threw |-> TRUE, result |-> FALSE]
      ELSE IF op = "ends-with"
        THEN IF RegExpValid(testValue \o <<"$">>)
             THEN [threw |-> FALSE,
                   result |-> RegExpTest(testValue \o <<"$">>, fieldValue)]
             ELSE [threw |-> TRUE, result |-> FALSE]
      ELSE [threw |-> FALSE, result |-> TRUE]

\* PlainSwitch comparing without lower-casing
PlainSwitchCaseSensitive(fieldValue, condition) ==
  LET testValue == condition.value
      op == condition.operator
  IN  IF op = "equals" THEN fieldValue = testValue
      ELSE IF op = "not-equals" THEN fieldValue # testValue
      ELSE IF op = "contains" THEN includes(fieldValue, testValue)
      ELSE IF op = "not-contains" THEN ~includes(fieldValue, testValue)
      ELSE IF op = "starts-with" THEN startsWith(fieldValue, testValue)
      ELSE IF op = "ends-with" THEN endsWith(fieldValue, testValue)
      ELSE IF op = "empty" THEN fieldValue = EmptyStr
      ELSE IF op = "not-empty" THEN fieldValue # EmptyStr
      ELSE TRUE

\* the switch of the plain branch
PlainSwitch(fieldValue, condition) ==
  LET fieldLower == toLowerCase(fieldValue)
      testLower == toLowerCase(condition.value)
      op == condition.operator
  IN  IF op = "equals" THEN fieldLower = testLower
      ELSE IF op = "not-equals" THEN fieldLower # testLower
      ELSE IF op = "contains" THEN includes(fieldLower, testLower)
      ELSE IF op = "not-contains" THEN ~includes(fieldLower, testLower)
      ELSE IF op = "starts-with" THEN startsWith(fieldLower, testLower)
      ELSE IF op = "ends-with" THEN endsWith(fieldLower, testLower)
      ELSE IF op = "empty" THEN fieldValue = EmptyStr
      ELSE IF op = "not-empty" THEN fieldValue # EmptyStr
      ELSE TRUE

\* the body of the try block: what it assigns to result, or that it threw
TryBody(fieldValue, condition) ==
  IF condition.useRegex
  THEN IF RegExpValid(condition.value)
       THEN RegexSwitch(fieldValue, condition)
       ELSE [threw |-> TRUE, result |-> FALSE]
  ELSE [threw |-> FALSE, result |-> PlainSwitch(fieldValue, condition)]

\* RawResult without the shortcut for an empty value
RawResultWithoutEmptyShortcut(record, condition) ==
  LET fieldValue == FieldValue(record, condition.field)
  IN  IF condition.operator = "in-list"
      THEN InListResult(fieldValue, condition)
      ELSE LET body == TryBody(fieldValue, condition)
           IN  IF body.threw THEN FALSE ELSE body.result

\* RawResult with a catch block that lets the record pass
RawResultCatchGivesTrue(record, condition) ==
  LET fieldValue == FieldValue(record, condition.field)
  IN  IF condition.operator = "in-list"
      THEN InListResult(fieldValue, condition)
      ELSE IF condition.value = EmptyStr
              /\ condition.operator # "empty"
              /\ condition.operator # "not-empty"
           THEN TRUE
           ELSE LET body == TryBody(fieldValue, condition)
                IN  IF body.threw THEN TRUE ELSE body.result

\* the value of the local variable result when evaluateCondition reaches
\* its return statement
RawResult(record, condition) ==
  LET fieldValue == FieldValue(record, condition.field)
  IN  IF condition.operator = "in-list"
      THEN InListResult(fieldValue, condition)
      ELSE IF condition.value = EmptyStr
              /\ condition.operator # "empty"
              /\ condition.operator # "not-empty"
           THEN TRUE
           ELSE LET body == TryBody(fieldValue, condition)
                IN  IF body.threw THEN FALSE ELSE body.result

\* evaluateCondition returning from the in-list branch before the negation
evaluateConditionInListNotNegated(record, condition) ==
  IF condition.negate /\ condition.operator # "in-list"
  THEN ~RawResult(record, condition)
  ELSE RawResult(record, condition)

evaluateCondition(record, condition) ==
  IF condition.negate THEN ~RawResult(record, condition)
  ELSE RawResult(record, condition)

\* evaluateFilterGroup ignoring group.logic: every condition must hold
evaluateFilterGroupAlwaysEvery(record, group) ==
  IF Len(group.conditions) = 0 THEN TRUE
  ELSE \A i \in 1..Len(group.conditions) :
         evaluateCondition(record, group.conditions[i])

\* applyFilters's callback reads state.filterGroups: the groups are an
\* argument here and every caller passes the session's filterGroups
evaluateFilterGroup(record, group) ==
  IF Len(group.conditions) = 0 THEN TRUE
  ELSE IF group.logic = "AND"
       THEN \A i \in 1..Len(group.conditions) :
              evaluateCondition(record, group.conditions[i])
       ELSE \E i \in 1..Len(group.conditions) :
              evaluateCondition(record, group.conditions[i])

RecordPasses(groups, record) ==
  \E g \in 1..Len(groups) : evaluateFilterGroup(record, groups[g])

\* applyFilters without the early return for an empty configuration
applyFiltersNoEarlyReturn(recs, groups) ==
  SelectSeq(recs, LAMBDA record : RecordPasses(groups, record))

applyFilters(recs, groups) ==
  IF Len(groups) = 0 THEN recs
  ELSE SelectSeq(recs, LAMBDA record : RecordPasses(groups, record))

(***************************************************************************)
(* Natural sort and pivot aggregation                                      *)
(***************************************************************************)
Digits == <<"0","1","2","3","4","5","6","7","8","9">>

IsDigit(c) == \E d \in 1..Len(Digits) : Digits[d] = c

DigitValue(c) == (CHOOSE d \in 1..Len(Digits) : Digits[d] = c) - 1

\* primary collation order of the characters the model's inputs use:
\* punctuation, symbols, digits, letters (upper and lower case alike)
CollationOrder ==
  <<".", "(", ")", "|">> \o Digits \o LowerChars

Weight(c) ==
  CHOOSE w \in 1..Len(CollationOrder) : CollationOrder[w] = ToLowerChar(c)

\* index of the last character of the digit run that starts at s[i]
RECURSIVE RunEnd(_, _)
RunEnd(s, i) ==
  IF i < Len(s) /\ IsDigit(s[i + 1]) THEN RunEnd(s, i + 1) ELSE i

RECURSIVE RunValue(_, _, _)
\* numeric value of the digits s[i..j]
RunValue(s, i, j) ==
  IF j < i THEN 0 ELSE 10 * RunValue(s, i, j - 1) + DigitValue(s[j])

Sign(x, y) == IF x < y THEN -1 ELSE IF x > y THEN 1 ELSE 0

RECURSIVE CompareFrom(_, _, _, _)
CompareFrom(a, i, b, j) ==
  IF i > Len(a) /\ j > Len(b) THEN 0
  ELSE IF i > Len(a) THEN -1
  ELSE IF j > Len(b) THEN 1
  ELSE IF IsDigit(a[i]) /\ IsDigit(b[j])
       THEN LET ea == RunEnd(a, i)
                eb == RunEnd(b, j)
                d == Sign(RunValue(a, i, ea), RunValue(b, j, eb))
            IN  IF d # 0 THEN d ELSE CompareFrom(a, ea + 1, b, eb + 1)
       ELSE LET d == Sign(Weight(a[i]), Weight(b[j]))
            IN  IF d # 0 THEN d ELSE CompareFrom(a, i + 1, b, j + 1)

RECURSIVE CompareCodeUnits(_, _, _)
\* the comparison of a and b from position i on, character by character,
\* upper case before lower case and digits as characters
CompareCodeUnits(a, b, i) ==
  IF i > Len(a) /\ i > Len(b) THEN 0
  ELSE IF i > Len(a) THEN -1
  ELSE IF i > Len(b) THEN 1
  ELSE LET rank(c) == IF c \in Range(UpperChars) THEN Weight(c) - 100
                      ELSE Weight(c)
           d == Sign(rank(a[i]), rank(b[i]))
       IN  IF d # 0 THEN d ELSE CompareCodeUnits(a, b, i + 1)

\* a.localeCompare(b, undefined, { numeric: true, sensitivity: 'base' }); the
\* first definition is a.localeCompare(b) without the options' effect
naturalSortByCodeUnits(a, b) == CompareCodeUnits(a, b, 1)

naturalSort(a, b) == CompareFrom(a, 1, b, 1)

\* insert x behind every element that does not sort after it; the first
\* definition drops an x that ties with an element
InsertSortedUnlessTied(sorted, x) ==
  IF \E i \in 1..Len(sorted) : naturalSort(sorted[i], x) = 0 THEN sorted
  ELSE LET n == Cardinality({i \in 1..Len(sorted) :
                               naturalSort(sorted[i], x) <= 0})
       IN  SubSeq(sorted, 1, n) \o <<x>> \o SubSeq(sorted, n + 1, Len(sorted))

InsertSorted(sorted, x) ==
  LET n == Cardinality({i \in 1..Len(sorted) : naturalSort(sorted[i], x) <= 0})
  IN  SubSeq(sorted, 1, n) \o <<x>> \o SubSeq(sorted, n + 1, Len(sorted))

RECURSIVE SortFrom(_, _, _)
SortFrom(values, i, sorted) ==
  IF i > Len(values) THEN sorted
  ELSE SortFrom(values, i + 1, InsertSorted(sorted, values[i]))

\* Array.prototype.sort(naturalSort): a stable sort
SortNatural(values) == SortFrom(values, 1, << >>)

RECURSIVE AddAll(_, _, _)
\* the iteration order of a Set to which values[i..] are added: first
\* occurrences, in order
AddAll(values, i, seen) ==
  IF i > Len(values) THEN seen
  ELSE AddAll(values, i + 1,
              IF values[i] \in Range(seen) THEN seen
              ELSE Append(seen, values[i]))

EmptyLabel == <<"(", "e", "m", "p", "t", "y", ")">>

KeySeparator == <<"|", "|", "|">>

\* record[field] || '(empty)'; the first definition without the placeholder
AxisValueWithoutPlaceholder(record, field) ==
  IF field \in DOMAIN record THEN record[field] ELSE EmptyStr

AxisValue(record, field) ==
  IF field \in DOMAIN record /\ record[field] # EmptyStr
  THEN record[field] ELSE EmptyLabel

\* `${rowVal}|||${colVal}`
PivotKey(rowVal, colVal) == rowVal \o KeySeparator \o colVal

RECURSIVE PivotMapFrom(_, _, _, _, _)
\* the forEach of generatePivotTable from record i on
PivotMapFrom(recs, i, rowField, colField, map) ==
  IF i > Len(recs) THEN map
  ELSE LET key == PivotKey(AxisValue(recs[i], rowField),
                           AxisValue(recs[i], colField))
           old == IF key \in DOMAIN map THEN map[key] ELSE << >>
       IN  PivotMapFrom(recs, i + 1, rowField, colField,
                        [k \in DOMAIN map \cup {key} |->
                           IF k = key THEN Append(old, recs[i]) ELSE map[k]])

\* generatePivotTable; the first definition files no bucket for records[0]
generatePivotTableSkippingFirst(recs, rowField, colField) ==
  [pivotMap |-> PivotMapFrom(recs, 2, rowField, colField, << >>),
   rowValues |->
     SortNatural(AddAll([i \in 1..Len(recs) |-> AxisValue(recs[i], rowField)],
                        1, << >>)),
   colValues |->
     SortNatural(AddAll([i \in 1..Len(recs) |-> AxisValue(recs[i], colField)],
                        1, << >>)),
   rowField |-> rowField,
   colField |-> colField]

generatePivotTable(recs, rowField, colField) ==
  [pivotMap |-> PivotMapFrom(recs, 1, rowField, colField, << >>),
   rowValues |->
     SortNatural(AddAll([i \in 1..Len(recs) |-> AxisValue(recs[i], rowField)],
                        1, << >>)),
   colValues |->
     SortNatural(AddAll([i \in 1..Len(recs) |-> AxisValue(recs[i], colField)],
                        1, << >>)),
   rowField |-> rowField,
   colField |-> colField]

\* pivotMap.get(`${rowVal}|||${colVal}`) || []
PivotEntries(pivot, rowVal, colVal) ==
  IF PivotKey(rowVal, colVal) \in DOMAIN pivot.pivotMap
  THEN pivot.pivotMap[PivotKey(rowVal, colVal)]
  ELSE << >>

(***************************************************************************)
(* The state after construction                                            *)
(***************************************************************************)
NoCall == [fn |-> "none"]

\* service worker versions: version v is sw.js with the CACHE_NAME of v
MaxVersion == 2

Versions == 1..MaxVersion

CacheNames ==
  <<"dekereke-pivot-v1", "dekereke-pivot-v2", "dekereke-pivot-v3",
    "dekereke-pivot-v4">>

CACHE_NAME(v) == CacheNames[v]

\* of the seven precached URLs, two
urlsToCache == {"./", "./app.js"}

\* the URLs the page requests: the precached ones and one that is not
Urls == urlsToCache \cup {"./favicon.ico"}

\* nothing registered, no cache, an uncontrolled page
WorkerInit ==
  /\ cacheStorage = << >>
  /\ workers = [v \in Versions |->
                  [state |-> "parsed", skipWaiting |-> FALSE,
                   step |-> "none", toDelete |-> {}]]
  /\ page = [controller |-> 0, banner |-> FALSE, newWorker |-> 0,
             messaged |-> {}, tookOver |-> {}]
  /\ fetches = {}
  /\ response = [from |-> "none"]

SessionInit ==
  /\ WorkerInit
  /\ database = Null
  /\ fields = << >>
  /\ records = << >>
  /\ currentView = "upload"
  /\ pivotConfig = [rowField |-> Null, colField |-> Null]
  /\ pivotData = Null
  /\ currentFilter = Null
  /\ filterGroups = << >>
  /\ nextFilterGroupId = 1
  /\ nextFilterConditionId = 1
  /\ filteredRecordsCache = Null
  /\ fieldValuesCache = << >>
  /\ dom = [file |-> "", rowField |-> "", colField |-> "",
            filterFields |-> << >>]
  /\ loads = {}

(***************************************************************************)
(* Field value index                                                       *)
(***************************************************************************)
\* the Set filled by the forEach of getFieldValues, sorted
ComputeFieldValues(recs, fieldName) ==
  LET having == SelectSeq(recs, LAMBDA record :
                            /\ fieldName \in DOMAIN record
                            /\ record[fieldName] # EmptyStr)
  IN  SortNatural(AddAll([i \in 1..Len(having) |-> having[i][fieldName]],
                         1, << >>))

\* what getFieldValues(fieldName) returns: the cache entry when there is one
\* (an empty array is truthy as well)
getFieldValues(cache, recs, fieldName) ==
  IF fieldName \in DOMAIN cache THEN cache[fieldName]
  ELSE ComputeFieldValues(recs, fieldName)

\* state.fieldValuesCache after getFieldValues(fieldName)
CacheAfterGet(cache, recs, fieldName) ==
  [f \in DOMAIN cache \cup {fieldName} |->
     IF f \in DOMAIN cache THEN cache[f]
     ELSE ComputeFieldValues(recs, fieldName)]

\* the fields of the conditions of all groups, in rendering order
RECURSIVE ConditionFields(_, _)
ConditionFields(groups, g) ==
  IF g > Len(groups) THEN << >>
  ELSE [i \in 1..Len(groups[g].conditions) |->
          groups[g].conditions[i].field] \o ConditionFields(groups, g + 1)

RECURSIVE CacheAfterGets(_, _, _, _)
CacheAfterGets(cache, recs, fieldSeq, i) ==
  IF i > Len(fieldSeq) THEN cache
  ELSE CacheAfterGets(CacheAfterGet(cache, recs, fieldSeq[i]), recs,
                      fieldSeq, i + 1)

\* state.fieldValuesCache after renderFilterGroups: one getFieldValues per
\* condition; nothing when there is no group
RenderedCache(groups, cache, recs) ==
  CacheAfterGets(cache, recs, ConditionFields(groups, 1), 1)

\* the options of the Field selects that renderFilterGroups writes
RenderedFields(groups, flds) == IF Len(groups) = 0 THEN << >> ELSE flds

(***************************************************************************)
(* Input files                                                             *)
(***************************************************************************)
\* every field name that occurs in an input file, in the order of
\* Array.prototype.sort()
FieldNames == <<"F", "G">>

FileNames == {"A.xml", "B.xml", "broken.xml", "norecords.xml"}

\* what parseXMLFile settles to and the data_form elements of the document,
\* each as the map from its child elements to their trimmed text
ParseOutcome(name) ==
  CASE name = "A.xml" ->
         [ok |-> TRUE,
          forms |-> <<[F |-> <<"a">>, G |-> <<"b">>], [G |-> <<"b">>]>>]
    [] name = "B.xml" ->
         [ok |-> TRUE, forms |-> <<[F |-> <<"b">>, G |-> <<"a">>]>>]
    [] name = "norecords.xml" -> [ok |-> TRUE, forms |-> << >>]
    [] OTHER -> [ok |-> FALSE, forms |-> << >>]

extractDataFromXML(forms) ==
  LET recs == SelectSeq(forms, LAMBDA record : DOMAIN record # {})
  IN  [records |-> recs,
       fields |-> SelectSeq(FieldNames, LAMBDA n :
                    \E i \in 1..Len(recs) : n \in DOMAIN recs[i])]

(***************************************************************************)
(* The session: loading a dataset and editing the filter configuration.    *)
(* A handler is enabled whenever the element it listens on exists; the     *)
(* inputs hidden by renderFilterGroups (display:none) take no input.       *)
(***************************************************************************)
MaxGroupId == 1

MaxConditionId == 1

MaxPending == 1

\* what the user types into a Value input
TypedValues == {EmptyStr, <<"a">>}

GroupIds == {filterGroups[g].id : g \in 1..Len(filterGroups)}

GroupOf(groupId) ==
  filterGroups[CHOOSE g \in 1..Len(filterGroups) :
                 filterGroups[g].id = groupId]

ConditionIds(groupId) ==
  {GroupOf(groupId).conditions[i].id :
     i \in 1..Len(GroupOf(groupId).conditions)}

ConditionOf(groupId, conditionId) ==
  LET cs == GroupOf(groupId).conditions
  IN  cs[CHOOSE i \in 1..Len(cs) : cs[i].id = conditionId]

\* filterGroups with the named condition replaced
WithCondition(groupId, conditionId, condition) ==
  [g \in 1..Len(filterGroups) |->
     IF filterGroups[g].id # groupId THEN filterGroups[g]
     ELSE [filterGroups[g] EXCEPT !.conditions =
             [i \in 1..Len(@) |->
                IF @[i].id = conditionId THEN condition ELSE @[i]]]]

\* renderFilterGroups() after the configuration has become groups
Render(groups) ==
  /\ fieldValuesCache' = RenderedCache(groups, fieldValuesCache, records)
  /\ dom' = [dom EXCEPT !.filterFields = RenderedFields(groups, fields)]

\* handleFileSelect up to its await
SelectFile ==
  \E name \in FileNames :
    /\ name \notin loads
    /\ Cardinality(loads) < MaxPending
    /\ loads' = loads \cup {name}
    /\ dom' = [dom EXCEPT !.file = name]
    /\ UNCHANGED <<database, fields, records, currentView, pivotConfig,
                   pivotData, currentFilter, filterGroups, nextFilterGroupId,
                   nextFilterConditionId, filteredRecordsCache,
                   fieldValuesCache, call, workerVars>>

\* handleFileSelect from the point where parseXMLFile settles
\* (FileParsedAssigningBeforeCheck: the state is assigned before the test
\* for zero records)
FileParsedAssigningBeforeCheck ==
  \E name \in loads :
    LET outcome == ParseOutcome(name)
        data == extractDataFromXML(outcome.forms)
    IN  /\ loads' = loads \ {name}
        /\ IF outcome.ok
           THEN /\ database' = name
                /\ records' = data.records
                /\ fields' = data.fields
                /\ IF Len(data.records) > 0
                   THEN /\ dom' = [dom EXCEPT !.rowField = "",
                                              !.colField = ""]
                        /\ currentView' = "config"
                   ELSE UNCHANGED <<dom, currentView>>
           ELSE UNCHANGED <<database, records, fields, dom, currentView>>
        /\ UNCHANGED <<pivotConfig, pivotData, currentFilter, filterGroups,
                       nextFilterGroupId, nextFilterConditionId,
                       filteredRecordsCache, fieldValuesCache, call,
                       workerVars>>

FileParsed ==
  \E name \in loads :
    LET outcome == ParseOutcome(name)
        data == extractDataFromXML(outcome.forms)
    IN  /\ loads' = loads \ {name}
        /\ IF outcome.ok /\ Len(data.records) > 0
           THEN /\ database' = name
                /\ records' = data.records
                /\ fields' = data.fields
                /\ dom' = [dom EXCEPT !.rowField = "", !.colField = ""]
                /\ currentView' = "config"
           ELSE UNCHANGED <<database, records, fields, dom, currentView>>
        /\ UNCHANGED <<pivotConfig, pivotData, currentFilter, filterGroups,
                       nextFilterGroupId, nextFilterConditionId,
                       filteredRecordsCache, fieldValuesCache, call,
                       workerVars>>

\* click on Add Filter Group: createFilterGroup(); renderFilterGroups()
AddFilterGroup ==
  /\ nextFilterGroupId <= MaxGroupId
  /\ filterGroups' = Append(filterGroups,
                            [id |-> nextFilterGroupId, logic |-> "AND",
                             conditions |-> << >>])
  /\ nextFilterGroupId' = nextFilterGroupId + 1
  /\ Render(filterGroups')
  /\ UNCHANGED <<database, fields, records, currentView, pivotConfig,
                 pivotData, currentFilter, nextFilterConditionId,
                 filteredRecordsCache, loads, call, workerVars>>

\* click on + Add Condition: addFilterCondition(groupId);
\* renderFilterGroups()
AddCondition ==
  \E groupId \in GroupIds :
    /\ nextFilterConditionId <= MaxConditionId
    /\ filterGroups' =
         [g \in 1..Len(filterGroups) |->
            IF filterGroups[g].id # groupId THEN filterGroups[g]
            ELSE [filterGroups[g] EXCEPT !.conditions =
                    Append(@, [id |-> nextFilterConditionId,
                               field |-> IF Len(fields) > 0 THEN fields[1]
                                         ELSE "",
                               operator |-> "equals",
                               value |-> EmptyStr,
                               values |-> << >>,
                               useRegex |-> FALSE,
                               negate |-> FALSE])]]
    /\ nextFilterConditionId' = nextFilterConditionId + 1
    /\ Render(filterGroups')
    /\ UNCHANGED <<database, fields, records, currentView, pivotConfig,
                   pivotData, currentFilter, nextFilterGroupId,
                   filteredRecordsCache, loads, call, workerVars>>

removeFilterCondition ==
  \E groupId \in GroupIds :
    \E conditionId \in ConditionIds(groupId) :
      /\ filterGroups' =
           [g \in 1..Len(filterGroups) |->
              IF filterGroups[g].id # groupId THEN filterGroups[g]
              ELSE [filterGroups[g] EXCEPT !.conditions =
                      SelectSeq(@, LAMBDA c : c.id # conditionId)]]
      /\ Render(filterGroups')
      /\ UNCHANGED <<database, fields, records, currentView, pivotConfig,
                     pivotData, currentFilter, nextFilterGroupId,
                     nextFilterConditionId, filteredRecordsCache, loads,
                     call, workerVars>>

\* removeFilterGroup; the first definition regenerates the pivot table, if
\* there is one, from the remaining groups
removeFilterGroupRefreshing ==
  \E groupId \in GroupIds :
    /\ filterGroups' = SelectSeq(filterGroups, LAMBDA g : g.id # groupId)
    /\ Render(filterGroups')
    /\ IF pivotConfig.rowField # Null
       THEN /\ filteredRecordsCache' = applyFilters(records, filterGroups')
            /\ pivotData' = generatePivotTable(filteredRecordsCache',
                                               pivotConfig.rowField,
                                               pivotConfig.colField)
       ELSE UNCHANGED <<pivotData, filteredRecordsCache>>
    /\ UNCHANGED <<database, fields, records, currentView, pivotConfig,
                   currentFilter, nextFilterGroupId, nextFilterConditionId,
                   loads, call, workerVars>>

removeFilterGroup ==
  \E groupId \in GroupIds :
    /\ filterGroups' = SelectSeq(filterGroups, LAMBDA g : g.id # groupId)
    /\ Render(filterGroups')
    /\ UNCHANGED <<database, fields, records, currentView, pivotConfig,
                   pivotData, currentFilter, nextFilterGroupId,
                   nextFilterConditionId, filteredRecordsCache, loads, call,
                   workerVars>>

\* click on Clear All Filters, confirmed; the first definition resets the
\* counters and leaves the groups
clearAllFiltersKeepingGroups ==
  /\ nextFilterGroupId' = 1
  /\ nextFilterConditionId' = 1
  /\ Render(filterGroups)
  /\ UNCHANGED <<database, fields, records, currentView, pivotConfig,
                 pivotData, currentFilter, filterGroups,
                 filteredRecordsCache, loads, call, workerVars>>

clearAllFilters ==
  /\ filterGroups' = << >>
  /\ nextFilterGroupId' = 1
  /\ nextFilterConditionId' = 1
  /\ Render(filterGroups')
  /\ UNCHANGED <<database, fields, records, currentView, pivotConfig,
                 pivotData, currentFilter, filteredRecordsCache, loads, call,
                 workerVars>>

\* change of a group's Logic select
ChangeGroupLogic ==
  \E groupId \in GroupIds :
    \E logic \in {"AND", "OR"} :
      /\ filterGroups' =
           [g \in 1..Len(filterGroups) |->
              IF filterGroups[g].id # groupId THEN filterGroups[g]
              ELSE [filterGroups[g] EXCEPT !.logic = logic]]
      /\ UNCHANGED <<database, fields, records, currentView, pivotConfig,
                     pivotData, currentFilter, nextFilterGroupId,
                     nextFilterConditionId, filteredRecordsCache,
                     fieldValuesCache, dom, loads, call, workerVars>>

\* change of a condition's Field select: updateConditionField, and
\* renderFilterGroups() when the condition is an in-list condition
ChangeConditionField ==
  \E groupId \in GroupIds :
    \E conditionId \in ConditionIds(groupId) :
      \E field \in Range(dom.filterFields) :
        LET condition == ConditionOf(groupId, conditionId)
        IN  /\ filterGroups' =
                 WithCondition(groupId, conditionId,
                               [condition EXCEPT !.field = field])
            /\ IF condition.operator = "in-list"
               THEN Render(filterGroups')
               ELSE UNCHANGED <<fieldValuesCache, dom>>
            /\ UNCHANGED <<database, fields, records, currentView,
                           pivotConfig, pivotData, currentFilter,
                           nextFilterGroupId, nextFilterConditionId,
                           filteredRecordsCache, loads, call, workerVars>>

\* change of a condition's Operator select: updateConditionField;
\* renderFilterGroups()
ChangeConditionOperator ==
  \E groupId \in GroupIds :
    \E conditionId \in ConditionIds(groupId) :
      \E operator \in Operators :
        /\ filterGroups' =
             WithCondition(groupId, conditionId,
                           [ConditionOf(groupId, conditionId)
                              EXCEPT !.operator = operator])
        /\ Render(filterGroups')
        /\ UNCHANGED <<database, fields, records, currentView, pivotConfig,
                       pivotData, currentFilter, nextFilterGroupId,
                       nextFilterConditionId, filteredRecordsCache, loads,
                       call, workerVars>>

\* the Value input and the Regex box are displayed for every operator but
\* in-list, empty and not-empty
ValueInputShown(condition) ==
  condition.operator \notin {"in-list", "empty", "not-empty"}

\* input in a condition's Value field
ChangeConditionValue ==
  \E groupId \in GroupIds :
    \E conditionId \in ConditionIds(groupId) :
      \E value \in TypedValues :
        /\ ValueInputShown(ConditionOf(groupId, conditionId))
        /\ filterGroups' =
             WithCondition(groupId, conditionId,
                           [ConditionOf(groupId, conditionId)
                              EXCEPT !.value = value])
        /\ UNCHANGED <<database, fields, records, currentView, pivotConfig,
                       pivotData, currentFilter, nextFilterGroupId,
                       nextFilterConditionId, filteredRecordsCache,
                       fieldValuesCache, dom, loads, call, workerVars>>

\* change of the selection in a condition's multi-select, which is displayed
\* for in-list only.  Its options are those of the last rendering, the cache
\* entry of the condition's field: every handler that changes the field or
\* the operator of an in-list condition renders again, and no handler
\* replaces a cache entry.
ChangeConditionValues ==
  \E groupId \in GroupIds :
    \E conditionId \in ConditionIds(groupId) :
      LET condition == ConditionOf(groupId, conditionId)
      IN  /\ condition.operator = "in-list"
          /\ \E selected \in SUBSET Range(fieldValuesCache[condition.field]) :
               filterGroups' =
                 WithCondition(
                   groupId, conditionId,
                   [condition EXCEPT !.values =
                      SelectSeq(fieldValuesCache[condition.field],
                                LAMBDA v : v \in selected)])
          /\ UNCHANGED <<database, fields, records, currentView, pivotConfig,
                         pivotData, currentFilter, nextFilterGroupId,
                         nextFilterConditionId, filteredRecordsCache,
                         fieldValuesCache, dom, loads, call, workerVars>>

\* change of a condition's Regex box
ChangeConditionRegex ==
  \E groupId \in GroupIds :
    \E conditionId \in ConditionIds(groupId) :
      \E checked \in BOOLEAN :
        /\ ValueInputShown(ConditionOf(groupId, conditionId))
        /\ filterGroups' =
             WithCondition(groupId, conditionId,
                           [ConditionOf(groupId, conditionId)
                              EXCEPT !.useRegex = checked])
        /\ UNCHANGED <<database, fields, records, currentView, pivotConfig,
                       pivotData, currentFilter, nextFilterGroupId,
                       nextFilterConditionId, filteredRecordsCache,
                       fieldValuesCache, dom, loads, call, workerVars>>

\* change of a condition's NOT box
ChangeConditionNegate ==
  \E groupId \in GroupIds :
    \E conditionId \in ConditionIds(groupId) :
      \E checked \in BOOLEAN :
        /\ filterGroups' =
             WithCondition(groupId, conditionId,
                           [ConditionOf(groupId, conditionId)
                              EXCEPT !.negate = checked])
        /\ UNCHANGED <<database, fields, records, currentView, pivotConfig,
                       pivotData, currentFilter, nextFilterGroupId,
                       nextFilterConditionId, filteredRecordsCache,
                       fieldValuesCache, dom, loads, call, workerVars>>

Init == SessionInit /\ call = NoCall

Next ==
  \/ SelectFile
  \/ FileParsed
  \/ AddFilterGroup
  \/ AddCondition
  \/ removeFilterCondition
  \/ removeFilterGroup
  \/ clearAllFilters
  \/ ChangeGroupLogic
  \/ ChangeConditionField
  \/ ChangeConditionOperator
  \/ ChangeConditionValue
  \/ ChangeConditionValues
  \/ ChangeConditionRegex
  \/ ChangeConditionNegate

Spec == Init /\ [][Next]_vars

(***************************************************************************)
(* The session with the pivot table: the selects of the configuration     *)
(* view, Generate Pivot Table and Refresh Filters, next to loading and     *)
(* filter editing.                                                         *)
(***************************************************************************)
\* change of the Row Field or the Column Field select, whose options are ""
\* and the fields written by populateFieldSelects; handleFieldChange then
\* enables the Generate button iff both are chosen and differ
handleFieldChange ==
  \E select \in {"rowField", "colField"} :
    \E field \in {""} \cup Range(fields) :
      /\ dom' = [dom EXCEPT ![select] = field]
      /\ UNCHANGED <<database, fields, records, currentView, pivotConfig,
                     pivotData, currentFilter, filterGroups,
                     nextFilterGroupId, nextFilterConditionId,
                     filteredRecordsCache, fieldValuesCache, loads, call,
                     workerVars>>

\* click on Generate Pivot Table past the early return.  Both selects hold a
\* field only after a change event, and the last one left the button
\* enabled only if the two differ.
handleGeneratePivot ==
  /\ dom.rowField # ""
  /\ dom.colField # ""
  /\ dom.rowField # dom.colField
  /\ pivotConfig' = [rowField |-> dom.rowField, colField |-> dom.colField]
  /\ filteredRecordsCache' = applyFilters(records, filterGroups)
  /\ pivotData' = generatePivotTable(filteredRecordsCache', dom.rowField,
                                     dom.colField)
  /\ currentView' = "pivot"
  /\ UNCHANGED <<database, fields, records, currentFilter, filterGroups,
                 nextFilterGroupId, nextFilterConditionId, fieldValuesCache,
                 dom, loads, call, workerVars>>

\* click on Refresh Filters past the early return; the first definition
\* aggregates the records cached by the last run again
refreshPivotWithFiltersFromCache ==
  /\ pivotConfig.rowField # Null
  /\ pivotConfig.colField # Null
  /\ pivotData' = generatePivotTable(records, pivotConfig.rowField,
                                     pivotConfig.colField)
  /\ UNCHANGED <<database, fields, records, currentView, pivotConfig,
                 currentFilter, filterGroups, nextFilterGroupId,
                 nextFilterConditionId, filteredRecordsCache,
                 fieldValuesCache, dom, loads, call, workerVars>>

refreshPivotWithFilters ==
  /\ pivotConfig.rowField # Null
  /\ pivotConfig.colField # Null
  /\ filteredRecordsCache' = applyFilters(records, filterGroups)
  /\ pivotData' = generatePivotTable(filteredRecordsCache',
                                     pivotConfig.rowField,
                                     pivotConfig.colField)
  /\ UNCHANGED <<database, fields, records, currentView, pivotConfig,
                 currentFilter, filterGroups, nextFilterGroupId,
                 nextFilterConditionId, fieldValuesCache, dom, loads, call,
                 workerVars>>

\* state.pivotData and state.filteredRecordsCache are assigned where
\* state.pivotConfig is, and only there: they hold a table and a list once
\* the configuration holds fields
HasPivot == pivotConfig.rowField # Null

\* the files the user of this session selects
PivotSessionFiles == {"A.xml"}

\* the values the user of this session gives the Row Field select
PivotSessionRows == {"", "F"}

\* the operators the user of this session chooses
PivotSessionOperators == {"equals", "in-list"}

OperatorsChosenFrom(groups, operators) ==
  \A g \in 1..Len(groups) : \A i \in 1..Len(groups[g].conditions) :
    groups[g].conditions[i].operator \in operators

NextPivotSession ==
  \/ SelectFile /\ loads' \subseteq PivotSessionFiles
  \/ FileParsed
  \/ AddFilterGroup
  \/ AddCondition
  \/ removeFilterCondition
  \/ removeFilterGroup
  \/ clearAllFilters
  \/ ChangeGroupLogic
  \/ ChangeConditionField
  \/ ChangeConditionOperator
       /\ OperatorsChosenFrom(filterGroups', PivotSessionOperators)
  \/ ChangeConditionValue
  \/ ChangeConditionValues
  \/ ChangeConditionRegex
  \/ ChangeConditionNegate
  \/ handleFieldChange /\ dom'.rowField \in PivotSessionRows
  \/ handleGeneratePivot
  \/ refreshPivotWithFilters

SpecPivotSession == Init /\ [][NextPivotSession]_vars

\* overlapping file selections: a change of the file input while earlier
\* invocations of handleFileSelect still await parseXMLFile
MaxOverlap == 2

\* handleFileSelect up to the await of parseXMLFile
\* (handleFileSelectNamingEarly: state.database is assigned before the await)
handleFileSelectNamingEarly ==
  \E name \in FileNames :
    /\ name \notin loads
    /\ Cardinality(loads) < MaxOverlap
    /\ loads' = loads \cup {name}
    /\ dom' = [dom EXCEPT !.file = name]
    /\ database' = name
    /\ UNCHANGED <<fields, records, currentView, pivotConfig,
                   pivotData, currentFilter, filterGroups, nextFilterGroupId,
                   nextFilterConditionId, filteredRecordsCache,
                   fieldValuesCache, call, workerVars>>

handleFileSelect ==
  \E name \in FileNames :
    /\ name \notin loads
    /\ Cardinality(loads) < MaxOverlap
    /\ loads' = loads \cup {name}
    /\ dom' = [dom EXCEPT !.file = name]
    /\ UNCHANGED <<database, fields, records, currentView, pivotConfig,
                   pivotData, currentFilter, filterGroups, nextFilterGroupId,
                   nextFilterConditionId, filteredRecordsCache,
                   fieldValuesCache, call, workerVars>>

NextLoads ==
  \/ handleFileSelect
  \/ FileParsed
  \/ handleFieldChange

SpecLoads == Init /\ [][NextLoads]_vars

(***************************************************************************)
(* The filter configuration on its own: groups and conditions are created  *)
(* and removed, nothing is loaded and no condition is edited.              *)
(***************************************************************************)
MaxFilterIds == 3

\* click on Add Filter Group: createFilterGroup(); renderFilterGroups()
createFilterGroup ==
  /\ nextFilterGroupId <= MaxFilterIds
  /\ filterGroups' = Append(filterGroups,
                            [id |-> nextFilterGroupId, logic |-> "AND",
                             conditions |-> << >>])
  /\ nextFilterGroupId' = nextFilterGroupId + 1
  /\ Render(filterGroups')
  /\ UNCHANGED <<database, fields, records, currentView, pivotConfig,
                 pivotData, currentFilter, nextFilterConditionId,
                 filteredRecordsCache, loads, call, workerVars>>

\* click on + Add Condition: addFilterCondition(groupId);
\* renderFilterGroups()
addFilterCondition ==
  \E groupId \in GroupIds :
    /\ nextFilterConditionId <= MaxFilterIds
    /\ filterGroups' =
         [g \in 1..Len(filterGroups) |->
            IF filterGroups[g].id # groupId THEN filterGroups[g]
            ELSE [filterGroups[g] EXCEPT !.conditions =
                    Append(@, [id |-> nextFilterConditionId,
                               field |-> IF Len(fields) > 0 THEN fields[1]
                                         ELSE "",
                               operator |-> "equals",
                               value |-> EmptyStr,
                               values |-> << >>,
                               useRegex |-> FALSE,
                               negate |-> FALSE])]]
    /\ nextFilterConditionId' = nextFilterConditionId + 1
    /\ Render(filterGroups')
    /\ UNCHANGED <<database, fields, records, currentView, pivotConfig,
                   pivotData, currentFilter, nextFilterGroupId,
                   filteredRecordsCache, loads, call, workerVars>>

NextIds ==
  \/ createFilterGroup
  \/ addFilterCondition
  \/ removeFilterCondition
  \/ removeFilterGroup
  \/ clearAllFilters

SpecIds == Init /\ [][NextIds]_vars

\* removeFilterCondition and removeFilterGroup called with any ids, those
\* of no group or condition among them, on the configurations the panel
\* builds; call keeps the ids and the configuration before the call
AnyIds == 1..(MaxFilterIds + 1)

\* the groups after removeFilterCondition(groupId, conditionId)
\* (ConditionsWithoutInEveryGroup: the condition is filtered out of every
\* group)
ConditionsWithoutInEveryGroup(groups, groupId, conditionId) ==
  [g \in 1..Len(groups) |->
     [groups[g] EXCEPT !.conditions =
        SelectSeq(@, LAMBDA c : c.id # conditionId)]]

ConditionsWithout(groups, groupId, conditionId) ==
  [g \in 1..Len(groups) |->
     IF groups[g].id # groupId THEN groups[g]
     ELSE [groups[g] EXCEPT !.conditions =
             SelectSeq(@, LAMBDA c : c.id # conditionId)]]

\* the groups after removeFilterGroup(groupId)
GroupsWithout(groups, groupId) ==
  SelectSeq(groups, LAMBDA g : g.id # groupId)

ConfigurationBefore ==
  [filterGroups |-> filterGroups, nextFilterGroupId |-> nextFilterGroupId,
   nextFilterConditionId |-> nextFilterConditionId]

CallRemoveFilterCondition ==
  \E groupId \in AnyIds :
    \E conditionId \in AnyIds :
      /\ call = NoCall
      /\ call' = [fn |-> "removeFilterCondition", groupId |-> groupId,
                  conditionId |-> conditionId, before |-> ConfigurationBefore]
      /\ IF \E g \in 1..Len(filterGroups) : filterGroups[g].id = groupId
         THEN /\ filterGroups' =
                   ConditionsWithout(filterGroups, groupId, conditionId)
              /\ Render(filterGroups')
         ELSE UNCHANGED <<filterGroups, fieldValuesCache, dom>>
      /\ UNCHANGED <<database, fields, records, currentView, pivotConfig,
                     pivotData, currentFilter, nextFilterGroupId,
                     nextFilterConditionId, filteredRecordsCache, loads,
                     workerVars>>

CallRemoveFilterGroup ==
  \E groupId \in AnyIds :
    /\ call = NoCall
    /\ call' = [fn |-> "removeFilterGroup", groupId |-> groupId,
                conditionId |-> 0, before |-> ConfigurationBefore]
    /\ filterGroups' = GroupsWithout(filterGroups, groupId)
    /\ Render(filterGroups')
    /\ UNCHANGED <<database, fields, records, currentView, pivotConfig,
                   pivotData, currentFilter, nextFilterGroupId,
                   nextFilterConditionId, filteredRecordsCache, loads,
                   workerVars>>

NextRemove ==
  \/ call = NoCall /\ createFilterGroup
  \/ call = NoCall /\ addFilterCondition
  \/ call = NoCall /\ ChangeGroupLogic
  \/ call = NoCall /\ removeFilterGroup
  \/ CallRemoveFilterCondition
  \/ CallRemoveFilterGroup

SpecRemove == Init /\ [][NextRemove]_vars

\* the ids of all conditions, group by group
RECURSIVE AllConditionIds(_, _)
AllConditionIds(groups, g) ==
  IF g > Len(groups) THEN << >>
  ELSE [i \in 1..Len(groups[g].conditions) |-> groups[g].conditions[i].id]
         \o AllConditionIds(groups, g + 1)

\* C16: in every state reached by creating and removing groups and
\* conditions and by clearing all filters, no two groups have the same id,
\* no two conditions of any groups have the same id, and every id in use is
\* smaller than the counter it was drawn from.
C16_IdsDistinctAndBelowCounters ==
  LET groupIds == [g \in 1..Len(filterGroups) |-> filterGroups[g].id]
      conditionIds == AllConditionIds(filterGroups, 1)
  IN  /\ \A g \in 1..Len(groupIds) : \A h \in 1..Len(groupIds) :
           g # h => groupIds[g] # groupIds[h]
      /\ \A i \in 1..Len(conditionIds) : \A j \in 1..Len(conditionIds) :
           i # j => conditionIds[i] # conditionIds[j]
      /\ \A g \in 1..Len(groupIds) : groupIds[g] < nextFilterGroupId
      /\ \A i \in 1..Len(conditionIds) :
           conditionIds[i] < nextFilterConditionId

\* two groups left of three created, each holding a condition, after a
\* group and a condition were removed
C16_Witness ==
  /\ Len(filterGroups) = 2
  /\ filterGroups[1].id = 2
  /\ filterGroups[2].id = 3
  /\ AllConditionIds(filterGroups, 1) = <<1, 3>>
  /\ Len(filterGroups[1].conditions) = 1

(***************************************************************************)
(* The filter functions as functions of their arguments: evaluateCondition,*)
(* evaluateFilterGroup and applyFilters, each applied once to inputs drawn *)
(* from bounded sets.                                                      *)
(***************************************************************************)
MaxStrLen == 2

MaxListLen == 2

MaxGroupConds == 2

MaxGroups == 2

MaxRecords == 2

EvalChars == {"a", "A", "|", "("}

EvalStrs == StrsUpTo(EvalChars, MaxStrLen)

\* records with the field F present (possibly empty) or absent
EvalRecords == {<< >>} \cup {[F |-> v] : v \in EvalStrs}

ListEntries == {<<"a">>, <<"A">>, <<"|">>}

EvalConditions ==
  [id : {1}, field : {"F"}, operator : Operators \ {"in-list"},
   value : EvalStrs, values : {<< >>, <<(<<"a">>)>>},
   useRegex : BOOLEAN, negate : BOOLEAN]
  \cup
  [id : {1}, field : {"F"}, operator : {"in-list"},
   value : StrsUpTo(EvalChars, 1), values : SeqsUpTo(ListEntries, MaxListLen),
   useRegex : BOOLEAN, negate : BOOLEAN]

\* { Gloss: "run.INCMP" } and the condition Gloss contains "run"
GlossRecord == [Gloss |-> <<"r","u","n",".","I","N","C","M","P">>]

GlossCondition(neg) ==
  [id |-> 1, field |-> "Gloss", operator |-> "contains",
   value |-> <<"r","u","n">>, values |-> << >>,
   useRegex |-> FALSE, negate |-> neg]

EvalInputs ==
  [fn : {"evaluateCondition"}, record : EvalRecords,
   condition : EvalConditions, done : {FALSE}, ret : {FALSE}]
  \cup
  {[fn |-> "evaluateCondition", record |-> GlossRecord,
    condition |-> GlossCondition(neg), done |-> FALSE, ret |-> FALSE] :
     neg \in BOOLEAN}

Cond(op, v, vs, re, neg) ==
  [id |-> 1, field |-> "F", operator |-> op, value |-> v, values |-> vs,
   useRegex |-> re, negate |-> neg]

\* conditions that split the records of PoolRecords in different ways
CondPool ==
  {Cond("equals", <<"a">>, << >>, FALSE, FALSE),
   Cond("contains", <<"|">>, << >>, FALSE, TRUE),
   Cond("empty", << >>, << >>, FALSE, FALSE)}

PoolRecords == {<< >>, [F |-> <<"A">>], [F |-> <<"a", "|">>]}

GroupPool ==
  [id : {1}, logic : {"AND", "OR"},
   conditions : SeqsUpTo(CondPool, MaxGroupConds)]

\* the groups of the configurations given to applyFilters: at most one
\* condition, or the two conditions that disagree on [F |-> "A"]
ApplyGroupPool ==
  [id : {1}, logic : {"AND", "OR"},
   conditions : SeqsUpTo(CondPool, 1)
                \cup {<<Cond("equals", <<"a">>, << >>, FALSE, FALSE),
                        Cond("empty", << >>, << >>, FALSE, FALSE)>>}]

GroupInputs ==
  [fn : {"evaluateFilterGroup"}, record : PoolRecords, group : GroupPool,
   done : {FALSE}, ret : {FALSE}]

\* Category of five records: A, B, A, C, B; one condition Category in [A, B]
CategoryRecords ==
  <<[Category |-> <<"A">>], [Category |-> <<"B">>], [Category |-> <<"A">>],
    [Category |-> <<"C">>], [Category |-> <<"B">>]>>

CategoryGroups(neg) ==
  <<[id |-> 1, logic |-> "AND",
     conditions |-> <<[id |-> 1, field |-> "Category",
                       operator |-> "in-list", value |-> << >>,
                       values |-> <<(<<"A">>), (<<"B">>)>>,
                       useRegex |-> FALSE, negate |-> neg]>>]>>

ApplyInputs ==
  [fn : {"applyFilters"}, records : SeqsUpTo(PoolRecords, MaxRecords),
   groups : SeqsUpTo(ApplyGroupPool, MaxGroups), done : {FALSE}, ret : {<< >>}]
  \cup
  {[fn |-> "applyFilters", records |-> CategoryRecords,
    groups |-> CategoryGroups(neg), done |-> FALSE, ret |-> << >>] :
     neg \in BOOLEAN}

InitEval == SessionInit /\ call \in EvalInputs \cup GroupInputs \cup ApplyInputs

CallEvaluateCondition ==
  /\ call.fn = "evaluateCondition"
  /\ ~call.done
  /\ call' = [call EXCEPT !.done = TRUE,
                          !.ret = evaluateCondition(call.record,
                                                    call.condition)]
  /\ UNCHANGED <<sessionVars, workerVars>>

CallEvaluateFilterGroup ==
  /\ call.fn = "evaluateFilterGroup"
  /\ ~call.done
  /\ call' = [call EXCEPT !.done = TRUE,
                          !.ret = evaluateFilterGroup(call.record, call.group)]
  /\ UNCHANGED <<sessionVars, workerVars>>

CallApplyFilters ==
  /\ call.fn = "applyFilters"
  /\ ~call.done
  /\ call' = [call EXCEPT !.done = TRUE,
                          !.ret = applyFilters(call.records, call.groups)]
  /\ UNCHANGED <<sessionVars, workerVars>>

NextEval ==
  \/ CallEvaluateCondition
  \/ CallEvaluateFilterGroup
  \/ CallApplyFilters

SpecEval == InitEval /\ [][NextEval]_vars

(***************************************************************************)
(* Properties of the filter functions (checked under SpecEval)             *)
(***************************************************************************)
EvalDone == call.fn = "evaluateCondition" /\ call.done

\* the field's value, absent meaning empty
RecordField(record, field) ==
  IF field \in DOMAIN record THEN record[field] ELSE EmptyStr

SameLetter(c, d) == ToLowerChar(c) = ToLowerChar(d)

\* t occurs in s at offset k, letter case ignored
OccursAt(s, t, k) ==
  /\ k >= 0
  /\ k + Len(t) <= Len(s)
  /\ \A i \in 1..Len(t) : SameLetter(s[k + i], t[i])

EqIgnoreCase(s, t) == Len(s) = Len(t) /\ OccursAt(s, t, 0)

\* the result before negation, recovered from the returned value
RawOfCall == IF call.condition.negate THEN ~call.ret ELSE call.ret

\* C2: a condition whose value is the empty string and whose operator is not
\* empty, not-empty or in-list evaluates to true on every record, for every
\* setting of useRegex and negate.
C2_EmptyValueMatchesAll ==
  (/\ EvalDone
   /\ call.condition.value = EmptyStr
   /\ call.condition.operator \notin {"empty", "not-empty", "in-list"})
  => call.ret = TRUE

\* C2 as amended: such a condition evaluates to true when negate is not set
\* and to false when it is, for every record and every setting of useRegex.
C2_EmptyValueRawTrue ==
  (/\ EvalDone
   /\ call.condition.value = EmptyStr
   /\ call.condition.operator \notin {"empty", "not-empty", "in-list"})
  => call.ret = ~call.condition.negate

C2_Witness ==
  /\ EvalDone
  /\ call.condition.value = EmptyStr
  /\ call.condition.operator = "equals"
  /\ call.condition.useRegex
  /\ call.condition.negate
  /\ call.record = [F |-> <<"a">>]
  /\ call.ret = FALSE

\* C3: with useRegex set, an operator other than in-list and a malformed
\* pattern, evaluateCondition returns false on every record, whatever negate
\* is.
C3_MalformedRegexIsFalse ==
  (/\ EvalDone
   /\ call.condition.useRegex
   /\ call.condition.operator # "in-list"
   /\ ~RegExpValid(call.condition.value))
  => call.ret = FALSE

\* C3 as amended: for such a condition evaluateCondition returns false on
\* every record when negate is not set and true on every record when it is.
C3_MalformedRegexRawFalse ==
  (/\ EvalDone
   /\ call.condition.useRegex
   /\ call.condition.operator # "in-list"
   /\ ~RegExpValid(call.condition.value))
  => call.ret = call.condition.negate

C3_Witness ==
  /\ EvalDone
  /\ call.condition.useRegex
  /\ call.condition.operator = "starts-with"
  /\ call.condition.value = <<"a", "(">>
  /\ call.record = [F |-> <<"a">>]
  /\ ~call.condition.negate
  /\ call.ret = FALSE

\* C6: flipping negate flips the value of evaluateCondition, for every
\* record and every condition.
C6_NegateIsInvolution ==
  EvalDone =>
    evaluateCondition(call.record,
                      [call.condition EXCEPT !.negate = ~@]) = ~call.ret

C6_Witness ==
  /\ EvalDone
  /\ call.condition.useRegex
  /\ ~RegExpValid(call.condition.value)
  /\ call.condition.operator = "ends-with"
  /\ call.condition.negate
  /\ call.ret = TRUE

InSomeEntry(record, condition) ==
  \E i \in 1..Len(condition.values) :
    EqIgnoreCase(RecordField(record, condition.field), condition.values[i])

\* C7: in-list ignores useRegex and value; un-negated it matches iff values
\* is empty or the field equals some entry ignoring case; negated with a
\* non-empty list it matches iff the field equals no entry.  On Category
\* A,B,A,C,B the condition in [A,B] retains 4 records, its negation 1.
C7_InList ==
  /\ (EvalDone /\ call.condition.operator = "in-list") =>
       IF ~call.condition.negate
       THEN call.ret <=> (\/ Len(call.condition.values) = 0
                          \/ InSomeEntry(call.record, call.condition))
       ELSE Len(call.condition.values) > 0 =>
              (call.ret <=> ~InSomeEntry(call.record, call.condition))
  /\ (/\ call.fn = "applyFilters" /\ call.done
      /\ call.records = CategoryRecords
      /\ call.groups = CategoryGroups(FALSE))
     => /\ Len(call.ret) = 4
        /\ \A i \in 1..4 : call.ret[i].Category # <<"C">>
  /\ (/\ call.fn = "applyFilters" /\ call.done
      /\ call.records = CategoryRecords
      /\ call.groups = CategoryGroups(TRUE))
     => call.ret = <<[Category |-> <<"C">>]>>

C7_Witness ==
  /\ EvalDone
  /\ call.condition.operator = "in-list"
  /\ call.condition.negate
  /\ call.condition.useRegex
  /\ call.condition.value = <<"(">>
  /\ call.condition.values = <<(<<"|">>), (<<"A">>)>>
  /\ call.record = [F |-> <<"a">>]
  /\ call.ret = FALSE

\* the k-th smallest element of a set of indices
KthOf(S, k) == CHOOSE i \in S : Cardinality({j \in S : j < i}) = k - 1

\* C8: applyFilters returns the records that satisfy at least one group, each
\* once and in their original order; with no groups it returns its argument.
C8_ApplyFiltersIsStableFilter ==
  (call.fn = "applyFilters" /\ call.done) =>
    LET keep == {i \in 1..Len(call.records) :
                   \E g \in 1..Len(call.groups) :
                     evaluateFilterGroup(call.records[i], call.groups[g])}
    IN  IF Len(call.groups) = 0
        THEN call.ret = call.records
        ELSE /\ Len(call.ret) = Cardinality(keep)
             /\ \A k \in 1..Len(call.ret) :
                  call.ret[k] = call.records[KthOf(keep, k)]

C8_Witness ==
  /\ call.fn = "applyFilters" /\ call.done
  /\ Len(call.groups) = 2
  /\ Len(call.records) = 2
  /\ call.ret = <<call.records[2]>>
  /\ call.records[1] # call.records[2]

\* C9: a group without conditions is true; an AND group is true iff every
\* condition is, an OR group iff some condition is; the order of the
\* conditions does not matter; a configuration that contains a group
\* without conditions lets every record pass.
C9_GroupSemantics ==
  /\ (call.fn = "evaluateFilterGroup" /\ call.done) =>
       LET cs == call.group.conditions
           n == Len(cs)
       IN  /\ n = 0 => call.ret
           /\ (n > 0 /\ call.group.logic = "AND") =>
                (call.ret <=>
                   \A i \in 1..n : evaluateCondition(call.record, cs[i]))
           /\ (n > 0 /\ call.group.logic = "OR") =>
                (call.ret <=>
                   \E i \in 1..n : evaluateCondition(call.record, cs[i]))
           /\ \A p \in Permutations(1..n) :
                evaluateFilterGroup(
                  call.record,
                  [call.group EXCEPT !.conditions = [i \in 1..n |-> cs[p[i]]]])
                = call.ret
  /\ (/\ call.fn = "applyFilters" /\ call.done
      /\ \E g \in 1..Len(call.groups) : Len(call.groups[g].conditions) = 0)
     => call.ret = call.records

C9_Witness ==
  /\ call.fn = "evaluateFilterGroup" /\ call.done
  /\ call.group.logic = "OR"
  /\ Len(call.group.conditions) = 2
  /\ ~evaluateCondition(call.record, call.group.conditions[1])
  /\ evaluateCondition(call.record, call.group.conditions[2])
  /\ call.ret = TRUE

\* C10: without regex and with a non-empty value, the result before negation
\* compares field and value ignoring case: equals is equality, contains is
\* substring, starts-with prefix, ends-with suffix, not-equals and
\* not-contains their negations; 'run.INCMP' matches contains 'run' and
\* stops matching once negate is set.
C10_PlainOperators ==
  /\ (/\ EvalDone
      /\ ~call.condition.useRegex
      /\ call.condition.value # EmptyStr
      /\ call.condition.operator \notin {"in-list", "empty", "not-empty"})
     => LET fv == RecordField(call.record, call.condition.field)
            v == call.condition.value
            op == call.condition.operator
            equal == EqIgnoreCase(fv, v)
            inside == \E k \in 0..Len(fv) : OccursAt(fv, v, k)
        IN  RawOfCall <=>
              CASE op = "equals" -> equal
                [] op = "not-equals" -> ~equal
                [] op = "contains" -> inside
                [] op = "not-contains" -> ~inside
                [] op = "starts-with" -> OccursAt(fv, v, 0)
                [] op = "ends-with" -> OccursAt(fv, v, Len(fv) - Len(v))
  /\ (EvalDone /\ call.record = GlossRecord) =>
       (call.ret <=> ~call.condition.negate)

C10_Witness ==
  /\ EvalDone
  /\ call.record = GlossRecord
  /\ call.condition.negate
  /\ call.ret = FALSE

\* the record with the field set to the empty string
WithEmptyField(record, field) ==
  [f \in DOMAIN record \cup {field} |->
     IF f = field THEN EmptyStr ELSE record[f]]

\* C17: for a record that lacks the condition's field, evaluateCondition
\* returns a boolean, the one it returns for the same record with the field
\* set to the empty string.
C17_MissingFieldIsEmptyString ==
  (EvalDone /\ call.condition.field \notin DOMAIN call.record) =>
    /\ call.ret \in BOOLEAN
    /\ call.ret = evaluateCondition(
                     WithEmptyField(call.record, call.condition.field),
                     call.condition)

\* a record without the field F passing the condition F is empty
C17_Witness ==
  /\ EvalDone
  /\ call.condition.field \notin DOMAIN call.record
  /\ call.condition.operator = "empty"
  /\ ~call.condition.useRegex
  /\ ~call.condition.negate
  /\ call.ret = TRUE

(***************************************************************************)
(* generatePivotTable as a function of its arguments                       *)
(***************************************************************************)
MaxPivotRecords == 2

\* axis values, among them two pairs whose keys coincide,
\* "a|" + "|||" + "a" and "a" + "|||" + "|a", and two values that differ in
\* case only
AxisStrs == {<< >>, <<"a">>, <<"A">>, <<"a", "|">>, <<"|", "a">>}

\* records with the fields R and C present or absent
PivotRecords ==
  UNION {[D -> AxisStrs] : D \in SUBSET {"R", "C"}}

PivotInputs ==
  [fn : {"generatePivotTable"},
   records : SeqsUpTo(PivotRecords, MaxPivotRecords),
   rowField : {"R"}, colField : {"C"}, done : {FALSE}, ret : {Null}]

MaxSortRecords == 3

\* values with digit runs and with letters in either case
SortStrs ==
  {<<"2">>, <<"1", "0">>,
   <<"i", "t", "e", "m", "1">>, <<"i", "t", "e", "m", "2">>,
   <<"I", "T", "E", "M", "2">>, <<"i", "t", "e", "m", "1", "0">>}

SortRecords == SeqsUpTo({[R |-> v] : v \in SortStrs}, MaxSortRecords)

SortInputs ==
  [fn : {"generatePivotTable"}, records : SortRecords,
   rowField : {"R"}, colField : {"C"}, done : {FALSE}, ret : {Null}]

\* getFieldValues with nothing cached and with the empty list cached
FieldValuesInputs ==
  [fn : {"getFieldValues"}, records : SortRecords, fieldName : {"R"},
   fieldValuesCache : {<< >>, [R |-> << >>]}, done : {FALSE}, ret : {Null},
   cacheAfter : {Null}]

MaxDiagonalRecords == 3

\* values of one field used for the rows and for the columns, among them
\* three for which "|" + "|||" + "|||" is "||" + "|||" + "||"
DiagonalStrs == {<< >>, <<"a">>, <<"|">>, <<"|", "|">>, <<"|", "|", "|">>}

DiagonalInputs ==
  [fn : {"generatePivotTable"},
   records : SeqsUpTo({<< >>} \cup {[R |-> v] : v \in DiagonalStrs},
                      MaxDiagonalRecords),
   rowField : {"R"}, colField : {"R"}, done : {FALSE}, ret : {Null}]

MaxPlaceholderRecords == 2

\* records whose row or column value is the text of the placeholder itself,
\* next to records that lack the value
PlaceholderInputs ==
  [fn : {"generatePivotTable"},
   records : SeqsUpTo({[C |-> <<"a">>],
                       [R |-> EmptyLabel, C |-> <<"a">>],
                       [R |-> <<"a">>],
                       [R |-> <<"a">>, C |-> EmptyLabel]},
                      MaxPlaceholderRecords),
   rowField : {"R"}, colField : {"C"}, done : {FALSE}, ret : {Null}]

InitPivot ==
  /\ SessionInit
  /\ call \in PivotInputs \cup SortInputs \cup FieldValuesInputs
                \cup DiagonalInputs \cup PlaceholderInputs

CallGeneratePivotTable ==
  /\ call.fn = "generatePivotTable"
  /\ ~call.done
  /\ call' = [call EXCEPT !.done = TRUE,
                          !.ret = generatePivotTable(call.records,
                                                     call.rowField,
                                                     call.colField)]
  /\ UNCHANGED <<sessionVars, workerVars>>

CallGetFieldValues ==
  /\ call.fn = "getFieldValues"
  /\ ~call.done
  /\ call' = [call EXCEPT !.done = TRUE,
                          !.ret = getFieldValues(call.fieldValuesCache,
                                                 call.records,
                                                 call.fieldName),
                          !.cacheAfter =
                            CacheAfterGet(call.fieldValuesCache,
                                          call.records, call.fieldName)]
  /\ UNCHANGED <<sessionVars, workerVars>>

NextPivot == CallGeneratePivotTable \/ CallGetFieldValues

SpecPivot == InitPivot /\ [][NextPivot]_vars

\* C5: for every row value r and column value c of the pivot, the records
\* looked up for the cell (r, c) are exactly the input records whose row
\* value is r and whose column value is c, in input order.
C5_CellHoldsItsRecords ==
  (call.fn = "generatePivotTable" /\ call.done) =>
    \A r \in Range(call.ret.rowValues) :
      \A c \in Range(call.ret.colValues) :
        PivotEntries(call.ret, r, c)
          = SelectSeq(call.records,
                      LAMBDA rec : /\ AxisValue(rec, call.rowField) = r
                                   /\ AxisValue(rec, call.colField) = c)

PivotDone == call.fn = "generatePivotTable" /\ call.done

\* the key under which generatePivotTable files a record of the call
KeyOfRecord(rec) ==
  PivotKey(AxisValue(rec, call.rowField), AxisValue(rec, call.colField))

HasValue(rec, field) == field \in DOMAIN rec /\ rec[field] # EmptyStr

RECURSIVE SumOfSizes(_, _)
\* the sum of the sizes of the buckets filed under keys
SumOfSizes(map, keys) ==
  IF keys = {} THEN 0
  ELSE LET k == CHOOSE x \in keys : TRUE
       IN  Len(map[k]) + SumOfSizes(map, keys \ {k})

\* C11: when every input record has a non-empty row value and a non-empty
\* column value, the sizes of the buckets of the pivot map sum to the number
\* of input records, every record's key has a bucket, and every bucket holds
\* exactly the input records of its key, each as often as it was passed.
C11_BucketsPartitionRecords ==
  (/\ PivotDone
   /\ \A i \in 1..Len(call.records) :
        /\ HasValue(call.records[i], call.rowField)
        /\ HasValue(call.records[i], call.colField)) =>
    LET map == call.ret.pivotMap
    IN  /\ SumOfSizes(map, DOMAIN map) = Len(call.records)
        /\ \A i \in 1..Len(call.records) :
             KeyOfRecord(call.records[i]) \in DOMAIN map
        /\ \A k \in DOMAIN map :
             map[k] = SelectSeq(call.records,
                                LAMBDA rec : KeyOfRecord(rec) = k)

\* two records with values everywhere, filed into two buckets
C11_Witness ==
  /\ PivotDone
  /\ Len(call.records) = 2
  /\ \A i \in 1..2 : /\ HasValue(call.records[i], call.rowField)
                      /\ HasValue(call.records[i], call.colField)
  /\ Cardinality(DOMAIN call.ret.pivotMap) = 2

\* the row or column value the placeholder rule gives a record
Placed(rec, field) == IF HasValue(rec, field) THEN rec[field] ELSE EmptyLabel

\* C12: every input record whose row field is missing or empty is found in
\* the cell of row value '(empty)' and of its column value, every record
\* whose column field is missing or empty in the cell of its row value and
\* column value '(empty)', with '(empty)' listed on that axis.
C12_MissingValuesUnderPlaceholder ==
  PivotDone =>
    \A i \in 1..Len(call.records) :
      LET rec == call.records[i]
      IN  /\ ~HasValue(rec, call.rowField) =>
               /\ EmptyLabel \in Range(call.ret.rowValues)
               /\ \E k \in 1..Len(PivotEntries(call.ret, EmptyLabel,
                                                Placed(rec, call.colField))) :
                    PivotEntries(call.ret, EmptyLabel,
                                 Placed(rec, call.colField))[k] = rec
          /\ ~HasValue(rec, call.colField) =>
               /\ EmptyLabel \in Range(call.ret.colValues)
               /\ \E k \in 1..Len(PivotEntries(call.ret,
                                                Placed(rec, call.rowField),
                                                EmptyLabel)) :
                    PivotEntries(call.ret, Placed(rec, call.rowField),
                                 EmptyLabel)[k] = rec

\* a record without the row field and a record whose column value is the
\* empty string, both filed
C12_Witness ==
  /\ PivotDone
  /\ Len(call.records) = 2
  /\ call.rowField \notin DOMAIN call.records[1]
  /\ call.colField \in DOMAIN call.records[2]
  /\ call.records[2][call.colField] = EmptyStr
  /\ HasValue(call.records[2], call.rowField)
  /\ Len(PivotEntries(call.ret, call.records[2][call.rowField],
                      EmptyLabel)) = 1

\* a list without repetitions
IsDuplicateFree(list) ==
  \A i \in 1..Len(list) : \A j \in 1..Len(list) :
    i # j => list[i] # list[j]

\* C13: the row values returned are, without repetition, exactly the row
\* values of the records passed to generatePivotTable (the placeholder for
\* records without one), and likewise the column values.
C13_AxisValuesAreObservedValues ==
  PivotDone =>
    /\ IsDuplicateFree(call.ret.rowValues)
    /\ IsDuplicateFree(call.ret.colValues)
    /\ Range(call.ret.rowValues)
         = {Placed(call.records[i], call.rowField) :
              i \in 1..Len(call.records)}
    /\ Range(call.ret.colValues)
         = {Placed(call.records[i], call.colField) :
              i \in 1..Len(call.records)}

\* two records with one row value, and with column values that differ in
\* case only
C13_Witness ==
  /\ PivotDone
  /\ Len(call.records) = 2
  /\ Len(call.ret.rowValues) = 1
  /\ call.ret.colValues = <<<<"a">>, <<"A">>>>

FieldValuesDone == call.fn = "getFieldValues" /\ call.done

Item(digits) == <<"i", "t", "e", "m">> \o digits

\* the position of the values of SortStrs in natural order: numbers before
\* words, digit runs by their value, item2 and ITEM2 alike
NaturalRank(v) ==
  CASE v = <<"2">> -> 1
    [] v = <<"1", "0">> -> 2
    [] v = Item(<<"1">>) -> 3
    [] toLowerCase(v) = Item(<<"2">>) -> 4
    [] v = Item(<<"1", "0">>) -> 5
    [] OTHER -> 6

InNaturalOrder(list) ==
  \A i \in 1..Len(list) : \A j \in 1..Len(list) :
    i < j => /\ naturalSort(list[i], list[j]) <= 0
             /\ (list[i] \in SortStrs /\ list[j] \in SortStrs) =>
                   NaturalRank(list[i]) <= NaturalRank(list[j])

\* C14: the row values and column values of generatePivotTable and the list
\* of getFieldValues are in the order of naturalSort; in it digit runs
\* compare by numeric value and case is ignored: the values item2, item10,
\* item1 come out as item1, item2, item10, and 2 comes before 10.
C14_NaturalOrder ==
  /\ PivotDone => /\ InNaturalOrder(call.ret.rowValues)
                  /\ InNaturalOrder(call.ret.colValues)
  /\ FieldValuesDone => InNaturalOrder(call.ret)
  /\ ((PivotDone \/ (FieldValuesDone /\ call.fieldValuesCache = << >>))
        /\ call.records = <<[R |-> Item(<<"2">>)], [R |-> Item(<<"1", "0">>)],
                            [R |-> Item(<<"1">>)]>>) =>
       (IF PivotDone THEN call.ret.rowValues ELSE call.ret)
         = <<Item(<<"1">>), Item(<<"2">>), Item(<<"1", "0">>)>>
  /\ (PivotDone \/ FieldValuesDone) =>
       /\ naturalSort(<<"2">>, <<"1", "0">>) < 0
       /\ naturalSort(Item(<<"2">>), <<"I", "T", "E", "M", "2">>) = 0

\* the values item2, item10, item1 passed to generatePivotTable and listed
\* as item1, item2, item10
C14_Witness ==
  /\ PivotDone
  /\ call.records = <<[R |-> Item(<<"2">>)], [R |-> Item(<<"1", "0">>)],
                      [R |-> Item(<<"1">>)]>>
  /\ call.ret.rowValues = <<Item(<<"1">>), Item(<<"2">>), Item(<<"1", "0">>)>>

\* C20: when the row field is the column field, every record is found in
\* the cell whose row value and column value are both its value, and every
\* cell of a row value and a different column value looks up as empty.
C20_EqualFieldsGiveDiagonal ==
  (PivotDone /\ call.rowField = call.colField) =>
    /\ \A i \in 1..Len(call.records) :
         LET v == Placed(call.records[i], call.rowField)
         IN  call.records[i] \in Range(PivotEntries(call.ret, v, v))
    /\ \A r \in Range(call.ret.rowValues) :
         \A c \in Range(call.ret.colValues) :
           r # c => PivotEntries(call.ret, r, c) = << >>

(***************************************************************************)
(* Properties of the session (checked under Spec)                          *)
(***************************************************************************)
\* the distinct non-empty values of a field in a record list
ValuesOfField(recs, fieldName) ==
  {recs[i][fieldName] :
     i \in {j \in 1..Len(recs) : /\ fieldName \in DOMAIN recs[j]
                                 /\ recs[j][fieldName] # EmptyStr}}

\* C1: once a dataset is loaded, getFieldValues(f) returns for every field
\* name f the distinct non-empty values of f in the records now loaded,
\* never a list cached for the dataset loaded before.
C1_FieldValuesOfLoadedDataset ==
  database # Null =>
    \A f \in Range(FieldNames) :
      Range(getFieldValues(fieldValuesCache, records, f))
        = ValuesOfField(records, f)

\* C4: in every state reachable by edits of the filter panel, for every
\* record loaded, a condition with operator empty has the raw result true
\* iff the record's field value is the empty string, and one with operator
\* not-empty iff it is not, whatever useRegex and value are.
C4_EmptyOperatorsIgnoreRegex ==
  \A g \in 1..Len(filterGroups) :
    \A i \in 1..Len(filterGroups[g].conditions) :
      \A r \in 1..Len(records) :
        LET condition == filterGroups[g].conditions[i]
            isEmpty == RecordField(records[r], condition.field) = EmptyStr
        IN  /\ condition.operator = "empty" =>
                 (RawResult(records[r], condition) <=> isEmpty)
            /\ condition.operator = "not-empty" =>
                 (RawResult(records[r], condition) <=> ~isEmpty)

\* C15: while a dataset is loaded, getFieldValues(f) returns for every field
\* name f the distinct non-empty values of f over all loaded records,
\* whatever the filter configuration is, and a second call returns the list
\* of the first.
C15_FieldValuesOverAllRecords ==
  database # Null =>
    \A f \in Range(FieldNames) :
      LET first == getFieldValues(fieldValuesCache, records, f)
          later == getFieldValues(CacheAfterGet(fieldValuesCache, records, f),
                                  records, f)
      IN  /\ later = first
          /\ IsDuplicateFree(first)
          /\ \A v \in Range(first) :
               \E r \in 1..Len(records) : HasValue(records[r], f)
                                           /\ records[r][f] = v
          /\ \A r \in 1..Len(records) :
               HasValue(records[r], f) => records[r][f] \in Range(first)

(***************************************************************************)
(* Properties of the session with the pivot table (checked under           *)
(* SpecPivotSession)                                                       *)
(***************************************************************************)
\* the records of all buckets of a pivot table
BucketRecords(pivot) ==
  UNION {Range(pivot.pivotMap[k]) : k \in DOMAIN pivot.pivotMap}

\* a record passes the filter configuration when there is no group or when
\* some group accepts it
PassesFilters(groups, rec) ==
  Len(groups) = 0 \/ \E g \in 1..Len(groups) :
                       evaluateFilterGroup(rec, groups[g])

\* C18: a step of handleGeneratePivot or of refreshPivotWithFilters that
\* passes the early return ends in a state where filteredRecordsCache is
\* the list of the loaded records that pass the filter groups of that state,
\* in their order, and where the buckets of pivotData hold those records and
\* no others, as many as the list has.
C18_PivotFollowsFilters ==
  [][(handleGeneratePivot \/ refreshPivotWithFilters) =>
       /\ filteredRecordsCache'
            = SelectSeq(records',
                        LAMBDA rec : PassesFilters(filterGroups', rec))
       /\ BucketRecords(pivotData') = Range(filteredRecordsCache')
       /\ SumOfSizes(pivotData'.pivotMap, DOMAIN pivotData'.pivotMap)
            = Len(filteredRecordsCache')]_vars

\* the table of a run that left out one of the loaded records
C18_Witness ==
  /\ HasPivot
  /\ Len(filterGroups) > 0
  /\ Len(filteredRecordsCache) = 1
  /\ Len(records) = 2
  /\ filteredRecordsCache = applyFilters(records, filterGroups)
  /\ BucketRecords(pivotData) = {records[1]}

\* a step of one of the handlers that edit the filter configuration
FilterEdit ==
  \/ AddFilterGroup
  \/ AddCondition
  \/ removeFilterCondition
  \/ removeFilterGroup
  \/ clearAllFilters
  \/ ChangeGroupLogic
  \/ ChangeConditionField
  \/ ChangeConditionOperator
  \/ ChangeConditionValue
  \/ ChangeConditionValues
  \/ ChangeConditionRegex
  \/ ChangeConditionNegate

\* a step that assigns pivotData or filteredRecordsCache another value
PivotChanged ==
  \/ HasPivot' # HasPivot
  \/ /\ HasPivot
     /\ <<pivotData, filteredRecordsCache>>'
          # <<pivotData, filteredRecordsCache>>

\* C19: no step that edits the filter configuration changes pivotData or
\* filteredRecordsCache, and every step that changes one of them is a step
\* of handleGeneratePivot or of refreshPivotWithFilters.
C19_OnlyPivotHandlersChangePivot ==
  [][/\ FilterEdit => (~PivotChanged
                        /\ UNCHANGED <<pivotData, filteredRecordsCache>>)
     /\ PivotChanged => (handleGeneratePivot \/ refreshPivotWithFilters)]_vars

\* a table generated from both records, kept while the filter groups have
\* come to pass one of them only
C19_Witness ==
  /\ HasPivot
  /\ filteredRecordsCache = records
  /\ Len(records) = 2
  /\ Len(filterGroups) > 0
  /\ Len(applyFilters(records, filterGroups)) = 1

\* ---------------------------------------------------------------------
\* The service worker (sw.js) and the page's registration of it
\* ---------------------------------------------------------------------

MaxFetches == 2

\* the version that is activating or activated, 0 when there is none
ActiveWorker ==
  IF \E v \in Versions : workers[v].state \in {"activating", "activated"}
  THEN CHOOSE v \in Versions : workers[v].state \in {"activating", "activated"}
  ELSE 0

WithCache(storage, name) ==
  IF name \in DOMAIN storage THEN storage
  ELSE [n \in DOMAIN storage \cup {name} |->
          IF n = name THEN {} ELSE storage[n]]

WithoutCache(storage, name) ==
  [n \in DOMAIN storage \ {name} |-> storage[n]]

\* the page after window.location.reload(): banner hidden, newWorker unset
Reloaded(pg, v, controlled) ==
  [pg EXCEPT !.controller = v, !.banner = FALSE, !.newWorker = 0,
             !.tookOver = IF controlled THEN @ \cup {v} ELSE @]

\* navigator.serviceWorker.register('./sw.js') or registration.update()
\* finds the next version; updatefound sets newWorker
registerServiceWorker(v) ==
  /\ workers[v].state = "parsed"
  /\ \A u \in Versions : u < v => workers[u].state # "parsed"
  /\ \A u \in Versions : workers[u].state # "installing"
  /\ workers' = [workers EXCEPT ![v].state = "installing",
                                ![v].step = "open"]
  /\ page' = [page EXCEPT !.newWorker = v]
  /\ UNCHANGED <<cacheStorage, fetches, response, sessionVars, call>>

\* install: caches.open(CACHE_NAME)
InstallOpen(v) ==
  /\ workers[v].state = "installing"
  /\ workers[v].step = "open"
  /\ cacheStorage' = WithCache(cacheStorage, CACHE_NAME(v))
  /\ workers' = [workers EXCEPT ![v].step = "addAll"]
  /\ UNCHANGED <<page, fetches, response, sessionVars, call>>

\* install: cache.addAll(urlsToCache), which may reject
InstallAddAll(v) ==
  /\ workers[v].state = "installing"
  /\ workers[v].step = "addAll"
  /\ \E ok \in BOOLEAN :
       IF ok
       THEN /\ cacheStorage' =
                 IF CACHE_NAME(v) \in DOMAIN cacheStorage
                 THEN [cacheStorage EXCEPT
                         ![CACHE_NAME(v)] = @ \cup urlsToCache]
                 ELSE cacheStorage
            /\ workers' = [workers EXCEPT ![v].step = "skipWaiting"]
       ELSE /\ workers' = [workers EXCEPT ![v].state = "redundant",
                                          ![v].step = "none"]
            /\ UNCHANGED cacheStorage
  /\ UNCHANGED <<page, fetches, response, sessionVars, call>>

\* install: self.skipWaiting(), then the worker is installed and the page's
\* statechange listener shows the banner when the page has a controller
InstallSkipWaiting(v) ==
  /\ workers[v].state = "installing"
  /\ workers[v].step = "skipWaiting"
  /\ workers' = [workers EXCEPT ![v].skipWaiting = TRUE,
                                ![v].state = "installed",
                                ![v].step = "none"]
  /\ page' = IF page.newWorker = v /\ page.controller # 0
             THEN [page EXCEPT !.banner = TRUE]
             ELSE page
  /\ UNCHANGED <<cacheStorage, fetches, response, sessionVars, call>>

\* the browser activates an installed worker when there is no active worker,
\* or when the worker asked to skip waiting and the active worker has no
\* fetch event left to answer; a controlled page gets controllerchange and
\* reloads
Activate(v) ==
  /\ workers[v].state = "installed"
  /\ ActiveWorker = 0 \/ workers[v].skipWaiting
  /\ \A f \in fetches :
       f.worker = ActiveWorker => f.phase = "put"
  /\ workers' = [u \in Versions |->
                   IF u = v
                   THEN [workers[u] EXCEPT !.state = "activating",
                                           !.step = "keys"]
                   ELSE IF u = ActiveWorker
                   THEN [workers[u] EXCEPT !.state = "redundant",
                                           !.step = "none"]
                   ELSE workers[u]]
  /\ page' = IF page.controller # 0
             THEN Reloaded(page, v, TRUE)
             ELSE page
  /\ UNCHANGED <<cacheStorage, fetches, response, sessionVars, call>>

\* activate: caches.keys()
ActivateKeys(v) ==
  /\ workers[v].state = "activating"
  /\ workers[v].step = "keys"
  /\ workers' = [workers EXCEPT
                   ![v].toDelete = DOMAIN cacheStorage \ {CACHE_NAME(v)},
                   ![v].step = "delete"]
  /\ UNCHANGED <<cacheStorage, page, fetches, response, sessionVars, call>>

\* activate: one of the caches.delete(cacheName) of the Promise.all
ActivateDelete(v) ==
  /\ workers[v].state = "activating"
  /\ workers[v].step = "delete"
  /\ \E name \in workers[v].toDelete :
       /\ cacheStorage' = WithoutCache(cacheStorage, name)
       /\ workers' = [workers EXCEPT ![v].toDelete = @ \ {name}]
  /\ UNCHANGED <<page, fetches, response, sessionVars, call>>

\* activate: self.clients.claim() after every delete; an uncontrolled page
\* gets this worker as controller
ActivateClaim(v) ==
  /\ workers[v].state = "activating"
  /\ workers[v].step = "delete"
  /\ workers[v].toDelete = {}
  /\ workers' = [workers EXCEPT ![v].state = "activated",
                                ![v].step = "none"]
  /\ page' = IF page.controller # v
             THEN Reloaded(page, v, page.controller # 0)
             ELSE page
  /\ UNCHANGED <<cacheStorage, fetches, response, sessionVars, call>>

\* the update button: post SKIP_WAITING to newWorker, whose message
\* listener calls self.skipWaiting(); hide the banner
UpdateButton ==
  /\ page.banner
  /\ IF page.newWorker # 0
     THEN /\ workers' = [workers EXCEPT ![page.newWorker].skipWaiting = TRUE]
          /\ page' = [page EXCEPT !.messaged = @ \cup {page.newWorker},
                                  !.banner = FALSE]
     ELSE /\ page' = [page EXCEPT !.banner = FALSE]
          /\ UNCHANGED workers
  /\ UNCHANGED <<cacheStorage, fetches, response, sessionVars, call>>

\* the controlled page requests a URL: a fetch event for its controller
FetchBegin(url) ==
  /\ page.controller # 0
  /\ workers[page.controller].state = "activated"
  /\ Cardinality(fetches) < MaxFetches
  /\ fetches' = fetches \cup
       {[worker |-> page.controller, url |-> url, phase |-> "match",
         matched |-> "unasked"]}
  /\ UNCHANGED <<cacheStorage, workers, page, response, sessionVars, call>>

InSomeCache(url) ==
  \E name \in DOMAIN cacheStorage : url \in cacheStorage[name]

\* fetch: caches.match(event.request); a hit is the response, a miss sends
\* the request to the network
\* (FetchMatchNetworkFirst: the network is asked without looking at the caches)
FetchMatchNetworkFirst(f) ==
  /\ f \in fetches
  /\ f.phase = "match"
  /\ fetches' = (fetches \ {f}) \cup {[f EXCEPT !.phase = "network"]}
  /\ UNCHANGED response
  /\ UNCHANGED <<cacheStorage, workers, page, sessionVars, call>>

FetchMatch(f) ==
  /\ f \in fetches
  /\ f.phase = "match"
  /\ IF InSomeCache(f.url)
     THEN /\ response' = [from |-> "cache", url |-> f.url,
                          matched |-> "hit", network |-> "unasked"]
          /\ fetches' = fetches \ {f}
     ELSE /\ fetches' = (fetches \ {f}) \cup
               {[f EXCEPT !.phase = "network", !.matched = "miss"]}
          /\ UNCHANGED response
  /\ UNCHANGED <<cacheStorage, workers, page, sessionVars, call>>

\* fetch: fetch(fetchRequest); a basic 200 response is returned and its
\* clone is left to be stored, another response is returned as it is, a
\* rejection is caught and nothing is returned
FetchNetwork(f) ==
  /\ f \in fetches
  /\ f.phase = "network"
  /\ \E outcome \in {"basic200", "other", "rejected"} :
       /\ response' =
            [from |-> IF outcome = "rejected" THEN "nothing" ELSE "network",
             url |-> f.url, matched |-> f.matched, network |-> outcome]
       /\ fetches' =
            IF outcome = "basic200"
            THEN (fetches \ {f}) \cup {[f EXCEPT !.phase = "put"]}
            ELSE fetches \ {f}
  /\ UNCHANGED <<cacheStorage, workers, page, sessionVars, call>>

\* fetch: caches.open(CACHE_NAME).then(cache => cache.put(...)), which the
\* handler does not wait for; caches.open creates the cache when absent
FetchPut(f) ==
  /\ f \in fetches
  /\ f.phase = "put"
  /\ cacheStorage' =
       [WithCache(cacheStorage, CACHE_NAME(f.worker)) EXCEPT
          ![CACHE_NAME(f.worker)] = @ \cup {f.url}]
  /\ fetches' = fetches \ {f}
  /\ UNCHANGED <<workers, page, response, sessionVars, call>>

\* the browser may stop a redundant worker before its pending put runs
TerminateWorker(f) ==
  /\ f \in fetches
  /\ f.phase = "put"
  /\ workers[f.worker].state = "redundant"
  /\ fetches' = fetches \ {f}
  /\ UNCHANGED <<cacheStorage, workers, page, response, sessionVars, call>>

NextWorker ==
  \/ \E v \in Versions : registerServiceWorker(v)
  \/ \E v \in Versions : InstallOpen(v)
  \/ \E v \in Versions : InstallAddAll(v)
  \/ \E v \in Versions : InstallSkipWaiting(v)
  \/ \E v \in Versions : Activate(v)
  \/ \E v \in Versions : ActivateKeys(v)
  \/ \E v \in Versions : ActivateDelete(v)
  \/ \E v \in Versions : ActivateClaim(v)
  \/ UpdateButton
  \/ \E url \in Urls : FetchBegin(url)
  \/ \E f \in fetches : FetchMatch(f)
  \/ \E f \in fetches : FetchNetwork(f)
  \/ \E f \in fetches : FetchPut(f)
  \/ \E f \in fetches : TerminateWorker(f)

SpecWorker == Init /\ [][NextWorker]_vars

\* after is before without its one element of the given id, or before itself
\* when no element has the id
IsRemovalOf(after, before, id) ==
  IF \E k \in 1..Len(before) : before[k].id = id
  THEN \E k \in 1..Len(before) :
         /\ before[k].id = id
         /\ after = SubSeq(before, 1, k - 1)
                      \o SubSeq(before, k + 1, Len(before))
  ELSE after = before

\* C30: removeFilterCondition(g, c) removes the condition c from the group g
\* and removeFilterGroup(g) the group g, and nothing else: the other groups
\* and conditions, their order and attributes and the two counters stay,
\* and an id that matches nothing leaves the configuration as it was
C30_RemovalsRemoveExactlyTheirTarget ==
  /\ call.fn \in {"removeFilterCondition", "removeFilterGroup"} =>
       /\ nextFilterGroupId = call.before.nextFilterGroupId
       /\ nextFilterConditionId = call.before.nextFilterConditionId
  /\ call.fn = "removeFilterGroup" =>
       IsRemovalOf(filterGroups, call.before.filterGroups, call.groupId)
  /\ call.fn = "removeFilterCondition" =>
       /\ Len(filterGroups) = Len(call.before.filterGroups)
       /\ \A g \in 1..Len(filterGroups) :
            LET old == call.before.filterGroups[g]
                new == filterGroups[g]
            IN  /\ new.id = old.id
                /\ new.logic = old.logic
                /\ IF old.id = call.groupId
                   THEN IsRemovalOf(new.conditions, old.conditions,
                                    call.conditionId)
                   ELSE new.conditions = old.conditions

\* the first of two conditions removed from the second of two groups, the
\* first group holding a condition too
C30_Witness ==
  /\ call.fn = "removeFilterCondition"
  /\ Len(call.before.filterGroups) = 2
  /\ call.before.filterGroups[2].id = call.groupId
  /\ Len(call.before.filterGroups[1].conditions) = 1
  /\ Len(call.before.filterGroups[2].conditions) = 2
  /\ call.before.filterGroups[2].conditions[1].id = call.conditionId
  /\ Len(filterGroups[2].conditions) = 1

\* C29: in every pivot result the cells of row value '(empty)' hold only
\* records whose row field is missing or the empty string, and the cells of
\* column value '(empty)' only records whose column field is
C29_PlaceholderBucketsHoldOnlyMissing ==
  PivotDone =>
    /\ \A c \in Range(call.ret.colValues) :
         \A k \in 1..Len(PivotEntries(call.ret, EmptyLabel, c)) :
           ~HasValue(PivotEntries(call.ret, EmptyLabel, c)[k], call.rowField)
    /\ \A r \in Range(call.ret.rowValues) :
         \A k \in 1..Len(PivotEntries(call.ret, r, EmptyLabel)) :
           ~HasValue(PivotEntries(call.ret, r, EmptyLabel)[k], call.colField)

\* the data handleFileSelect takes from a file, and whether it takes any
DataOf(name) == extractDataFromXML(ParseOutcome(name).forms)

Loadable(name) ==
  /\ name \in FileNames
  /\ ParseOutcome(name).ok
  /\ Len(DataOf(name).records) > 0

\* C25: when every handleFileSelect has completed and the file selected
\* last could be loaded, database, records and fields are those of that
\* file, in whatever order the parses finished
C25_LastSelectedFileWins ==
  (loads = {} /\ Loadable(dom.file)) =>
    /\ database = dom.file
    /\ records = DataOf(dom.file).records
    /\ fields = DataOf(dom.file).fields

\* C26: database, records and fields always come from one file, under any
\* interleaving of overlapping handleFileSelect invocations
C26_StateFromOneFile ==
  IF database = Null
  THEN records = << >> /\ fields = << >>
  ELSE /\ Loadable(database)
       /\ records = DataOf(database).records
       /\ fields = DataOf(database).fields

\* two overlapping selections have both completed, the one selected first
\* after the one selected last
C26_Witness ==
  /\ loads = {}
  /\ database = "A.xml"
  /\ dom.file = "B.xml"

\* a step in which handleFileSelect completes for a file that cannot be
\* read or parsed or holds no record
FailedLoad ==
  \E name \in loads : loads' = loads \ {name} /\ ~Loadable(name)

\* C28: a handleFileSelect that fails, or finds zero records, leaves
\* database, records, fields and currentView as they were and returns
C28_FailedLoadChangesNothing ==
  [][FailedLoad => UNCHANGED <<database, records, fields, currentView>>]_vars

\* a dataset is loaded and shown, and the selection made after it, of a
\* file without records, has completed
C28_Witness ==
  /\ loads = {}
  /\ database = "A.xml"
  /\ currentView = "config"
  /\ dom.file = "norecords.xml"

\* the configuration after addFilterCondition on its i-th group: the new
\* condition with the defaults, on the first field
WithFreshCondition(groups, i) ==
  [groups EXCEPT ![i].conditions =
     Append(@, [id |-> 2, field |-> "F", operator |-> "equals",
                value |-> EmptyStr, values |-> << >>, useRegex |-> FALSE,
                negate |-> FALSE])]

\* C24: adding a condition with the defaults of addFilterCondition to any
\* group of a configuration leaves the result of applyFilters unchanged
C24_FreshConditionChangesNothing ==
  (call.fn = "applyFilters" /\ call.done) =>
    \A i \in 1..Len(call.groups) :
      applyFilters(call.records, WithFreshCondition(call.groups, i))
        = call.ret

\* C23: in every reachable state the selected values of an in-list
\* condition are values its field takes in the loaded records, that is
\* elements of getFieldValues(condition.field)
C23_InListValuesAreFieldValues ==
  \A groupId \in GroupIds :
    \A conditionId \in ConditionIds(groupId) :
      LET condition == ConditionOf(groupId, conditionId)
      IN  condition.operator = "in-list" =>
            Range(condition.values) \subseteq
              Range(getFieldValues(fieldValuesCache, records,
                                   condition.field))

\* ---------------------------------------------------------------------
\* Properties of the service worker
\* ---------------------------------------------------------------------

\* the newest version that has been registered
IsNewest(v) ==
  /\ workers[v].state # "parsed"
  /\ \A u \in Versions : u > v => workers[u].state = "parsed"

\* C21: once the activate handler of the newest version has completed, the
\* cache storage holds no cache named otherwise than that version's
\* CACHE_NAME, whatever the service workers do afterwards
C21_OnlyCurrentCacheAfterActivate ==
  \A v \in Versions :
    (IsNewest(v) /\ workers[v].state = "activated")
      => DOMAIN cacheStorage \subseteq {CACHE_NAME(v)}

\* C22: a response taken from a cache involved no network request, and the
\* network is asked only after caches.match found nothing; what the network
\* answers is then the response
C22_CacheFirst ==
  response.from # "none" =>
    /\ response.from = "cache" <=> response.matched = "hit"
    /\ response.matched = "hit" => response.network = "unasked"
    /\ response.network # "unasked" => response.matched = "miss"
    /\ response.network \in {"basic200", "other"} => response.from = "network"

\* a cached response was returned while another request, having missed the
\* caches, got a network response that is still to be stored
C22_Witness ==
  /\ response.from = "cache"
  /\ \E f \in fetches : f.phase = "put" /\ f.matched = "miss"

\* C27: a new version takes control of an already controlled page only
\* after the page has sent it SKIP_WAITING
C27_ControlOnlyAfterSkipWaitingMessage ==
  page.tookOver \subseteq page.messaged

====
